---- MODULE Spec2Model ----
(***************************************************************************)
(* The curation-and-publishing pipeline of src/main.py: the dedup store    *)
(* (ModpackFinder.posted_packs and posted_packs.txt), the per-operator     *)
(* review session (UserSession), the persisted queue (PostQueue over       *)
(* queue.json), the handlers of the operator's commands and buttons, and   *)
(* the recurring job check_queue_callback.                                 *)
(*                                                                         *)
(* Scheduling.  Application.builder().build() processes updates one after  *)
(* another, so at most one handler runs at a time; the job runs as a task  *)
(* of the same event loop and can be scheduled at a handler's awaits.  A   *)
(* handler touches the state the job reads (queue.json) only inside        *)
(* PostQueue.add_post, which holds no await, so a handler is one action,   *)
(* its awaited transport calls appearing as the outcome the action draws.  *)
(* The job is split at its awaits: PollerTick is the synchronous           *)
(* get_due_posts, PollerDeliver is one iteration of the delivery loop, and *)
(* handlers interleave between them.                                       *)
(*                                                                         *)
(* Time.  `now` is the wall clock in whole hours (the floor of the real    *)
(* clock).  Every comparison of the program is against a slot, which is a  *)
(* whole hour, so the floor decides each of them as the real clock does.   *)
(***************************************************************************)
EXTENDS Integers, Sequences, FiniteSets, Bags, TLC

VARIABLES
    now,                \* time.time() / datetime.now(), in whole hours
    posted_packs,       \* finder.posted_packs: the in-memory set
    posted_packs_file,  \* posted_packs.txt: the lines of the append-only log
    queue_file,         \* queue.json: [text, records]
    user_sessions,      \* user_sessions: operator -> UserSession
    conv_state,         \* ConversationHandler's state of each operator
    editing_pack,       \* context.user_data['editing_pack'] of each operator
    due_posts,          \* check_queue_callback: the due posts not yet handed over
    reply,              \* what the last handler told its operator
    enqueued,           \* history: every post PostQueue.add_post appended
    drained,            \* history: every post get_due_posts returned to the job
    attempts,           \* history: every delivery the job attempted, with its result
    channel,            \* history: the bag of pack ids delivered to CHANNEL_ID
    slot_probe,         \* history: the last call of get_next_schedule_time probed
    crash_note          \* history: the last save a crash interrupted

core == <<now, posted_packs, posted_packs_file, queue_file, user_sessions,
          conv_state, editing_pack, due_posts, reply>>
hist == <<enqueued, drained, attempts, channel>>
probes == <<slot_probe, crash_note>>
vars == <<core, hist, probes>>

----------------------------------------------------------------------------
(* Bounds of the model. *)

ClockWindow == 2        \* hours the clock may advance past the first slot
MaxFetchDelay == 1      \* hours that may pass inside download_image
MaxEnqueue == 2         \* posts appended over a run
MaxMarks == 2           \* lines appended to posted_packs.txt over a run
MaxPublishNow == 2      \* deliveries to the channel before PublishNow is refused
ProbeDays == 3          \* days of clock values get_next_schedule_time is probed on
MaxDrainLen == 3        \* length of the queues get_due_posts is tried on
MaxLogLen == 4          \* lines of the logs save_posted_pack is tried on
MaxItems == 4           \* length of the lists set_results is tried on

(* Constants of the program. *)

MAX_SEARCH_RESULTS == 10
Slot12 == 12
Slot18 == 18
HoursPerDay == 24

\* The hits of the remote search, in its order: two projects.
Catalog == <<"alpha", "beta">>

Slugs == {Catalog[i] : i \in 1..Len(Catalog)}

\* The operators that talk to the bot: the keys of user_sessions.
Users == DOMAIN user_sessions

\* The clock runs from an hour before the first slot to MaxClock.
StartClock == Slot12 - 1
MaxClock == Slot12 + ClockWindow

----------------------------------------------------------------------------
(* Modpack, QueuedPost. *)

Modpack(slug) == [platform |-> "modrinth", slug |-> slug]

\* Python's None where a Modpack is expected.
NoPack == [platform |-> "none", slug |-> "none"]

get_id(pack) == <<pack.platform, pack.slug>>

\* download_url and title are functions of the pack, and image_path is the
\* optional handle download_image returned; the three are carried unread
\* from add_post to the send and are left out.
QueuedPost(text, scheduled_time, pack) ==
    [text |-> text, scheduled_time |-> scheduled_time, pack_id |-> get_id(pack)]

----------------------------------------------------------------------------
(* ModpackFinder: the dedup store. *)

load_posted_packs(file) == {file[i] : i \in 1..Len(file)}

\* save_posted_pack that takes out an identifier it finds in the set.
save_posted_pack_toggle(store, pack_id) ==
    [file |-> Append(store.file, pack_id),
     posted_packs |-> IF pack_id \in store.posted_packs
                      THEN store.posted_packs \ {pack_id}
                      ELSE store.posted_packs \cup {pack_id}]

\* save_posted_pack that adds to the set and writes no line.
save_posted_pack_unlogged(store, pack_id) ==
    [file |-> store.file,
     posted_packs |-> store.posted_packs \cup {pack_id}]

save_posted_pack(store, pack_id) ==
    [file |-> Append(store.file, pack_id),
     posted_packs |-> store.posted_packs \cup {pack_id}]

is_pack_posted(posted, pack_id) == pack_id \in posted

\* The loop without "if self.is_pack_posted(unique_id): continue".
RECURSIVE search_loop_unfiltered(_, _, _, _)
search_loop_unfiltered(hits, posted, available, new_packs) ==
    IF hits = <<>> \/ Len(new_packs) >= MAX_SEARCH_RESULTS
    THEN new_packs
    ELSE LET slug == Head(hits)
         IN  IF slug \notin available
             THEN search_loop_unfiltered(Tail(hits), posted, available, new_packs)
             ELSE search_loop_unfiltered(Tail(hits), posted, available,
                                         Append(new_packs, Modpack(slug)))

RECURSIVE search_loop(_, _, _, _)
search_loop(hits, posted, available, new_packs) ==
    IF hits = <<>> \/ Len(new_packs) >= MAX_SEARCH_RESULTS
    THEN new_packs
    ELSE LET slug == Head(hits)
             unique_id == <<"modrinth", slug>>
         IN  IF is_pack_posted(posted, unique_id)
             THEN search_loop(Tail(hits), posted, available, new_packs)
             ELSE IF slug \notin available
             THEN search_loop(Tail(hits), posted, available, new_packs)
             ELSE search_loop(Tail(hits), posted, available,
                              Append(new_packs, Modpack(slug)))

\* available: the projects whose get_modrinth_project answers.
search_new_modpacks(posted, available) ==
    search_loop(Catalog, posted, available, <<>>)

----------------------------------------------------------------------------
(* PostQueue over queue.json.  A file is [text, records]: its text is the   *)
(* "complete" JSON document of the records, a "partial" one (a write that   *)
(* stopped part way), or "empty" (size 0).                                  *)

EmptyQueueFile == [text |-> "complete", records |-> <<>>]

\* Size 0 gives [] at once; a text json.load cannot parse gives [] from the
\* except branch.
load(file) ==
    IF file.text = "empty" THEN <<>>
    ELSE IF file.text = "partial" THEN <<>>
    ELSE file.records

save(queue) == [text |-> "complete", records |-> queue]

\* add_post that appends to a fresh list instead of the loaded one.
add_post_lost_update(file, post) == save(Append(<<>>, post))

add_post(file, post) == save(Append(load(file), post))

\* get_due_posts' loop with "<" for "<=".
RECURSIVE due_loop_strict(_, _, _, _)
due_loop_strict(queue, t, due, remaining) ==
    IF queue = <<>>
    THEN [due |-> due, remaining |-> remaining]
    ELSE LET post == Head(queue)
         IN  IF post.scheduled_time < t
             THEN due_loop_strict(Tail(queue), t, Append(due, post), remaining)
             ELSE due_loop_strict(Tail(queue), t, due, Append(remaining, post))

RECURSIVE due_loop(_, _, _, _)
due_loop(queue, t, due, remaining) ==
    IF queue = <<>>
    THEN [due |-> due, remaining |-> remaining]
    ELSE LET post == Head(queue)
         IN  IF post.scheduled_time <= t
             THEN due_loop(Tail(queue), t, Append(due, post), remaining)
             ELSE due_loop(Tail(queue), t, due, Append(remaining, post))

get_due_posts(file, t) ==
    LET r == due_loop(load(file), t, <<>>, <<>>)
    IN  [due |-> r.due,
         file |-> IF r.due # <<>> THEN save(r.remaining) ELSE file]

\* now.replace(hour=h, minute=0, second=0, microsecond=0)
replace_hour(t, h) == (t \div HoursPerDay) * HoursPerDay + h

\* get_next_schedule_time with "<=" for "<".
get_next_schedule_time_inclusive(t) ==
    LET slot12 == replace_hour(t, Slot12)
        slot18 == replace_hour(t, Slot18)
    IN  IF t <= slot12 THEN slot12
        ELSE IF t <= slot18 THEN slot18
        ELSE replace_hour(t + HoursPerDay, Slot12)

get_next_schedule_time(t) ==
    LET slot12 == replace_hour(t, Slot12)
        slot18 == replace_hour(t, Slot18)
    IN  IF t < slot12 THEN slot12
        ELSE IF t < slot18 THEN slot18
        ELSE replace_hour(t + HoursPerDay, Slot12)

----------------------------------------------------------------------------
(* UserSession.  current_index counts from 0, as in the program. *)

NewSession == [modpacks |-> <<>>, current_index |-> 0, current_pack |-> NoPack]

update_current(s) ==
    IF s.modpacks # <<>> /\ s.current_index < Len(s.modpacks)
    THEN [s EXCEPT !.current_pack = s.modpacks[s.current_index + 1]]
    ELSE [s EXCEPT !.current_pack = NoPack]

\* set_results that extends the list it has.
set_results_extends(s, packs) ==
    update_current([s EXCEPT !.modpacks = s.modpacks \o packs, !.current_index = 0])

set_results(s, packs) ==
    update_current([s EXCEPT !.modpacks = packs, !.current_index = 0])

\* next() that tests the index against the length, not the last index.
session_next_past_end(s) ==
    IF s.current_index < Len(s.modpacks)
    THEN update_current([s EXCEPT !.current_index = s.current_index + 1])
    ELSE s

session_next(s) ==
    IF s.current_index < Len(s.modpacks) - 1
    THEN update_current([s EXCEPT !.current_index = s.current_index + 1])
    ELSE s

\* What next() returns: the new current pack, or None when it did not move.
next_returns(s) ==
    IF session_next(s) = s THEN NoPack ELSE session_next(s).current_pack

has_next(s) == s.current_index < Len(s.modpacks) - 1

\* A terminal action that forgets to move on.
advance_forgotten(s) == s

\* "if session.has_next(): session.next()", the step every terminal action ends with.
advance(s) == IF has_next(s) THEN session_next(s) ELSE s

\* What the operator is told once the session has advanced.
after_advance(s) == IF has_next(s) THEN "shown" ELSE "finished"

----------------------------------------------------------------------------
(* The state after the module's top-level code has run on a fresh           *)
(* directory: queue.json holds "[]", posted_packs.txt does not exist, no    *)
(* operator has a session.                                                  *)

NoReply == [user |-> 0, kind |-> "none"]
NoProbe == [at |-> 0, slot |-> 0]
NoCrash == [before |-> <<>>, saving |-> <<>>, read |-> <<>>, crashed |-> FALSE]

\* get_user_session makes an operator's session on their first update; a
\* new session is what UserSession() builds, so every operator has it from
\* the start.
StartOn(operators, clock, file, log) ==
    /\ now = clock
    /\ posted_packs = load_posted_packs(log)
    /\ posted_packs_file = log
    /\ queue_file = file
    /\ user_sessions = [u \in operators |-> NewSession]
    /\ conv_state = [u \in operators |-> "idle"]
    /\ editing_pack = [u \in operators |-> NoPack]
    /\ due_posts = <<>>
    /\ reply = NoReply
    /\ enqueued = <<>>
    /\ drained = <<>>
    /\ attempts = <<>>
    /\ channel = EmptyBag
    /\ slot_probe = NoProbe
    /\ crash_note = NoCrash

\* posted_packs.txt does not exist: load_posted_packs gives the empty set.
Start(operators, clock, file) == StartOn(operators, clock, file, <<>>)

\* One operator.
Init == Start({1}, StartClock, EmptyQueueFile)

\* Two operators.
InitTeam == Start({1, 2}, StartClock, EmptyQueueFile)

----------------------------------------------------------------------------
(* The handlers.  An outcome names the awaited transport call that raised,  *)
(* if any: "fail_confirm" is query.message.delete() or the confirmation     *)
(* message, before the session advances; "fail_preview" is the preview or   *)
(* the closing message, after it.                                           *)

Outcomes == {"ok", "fail_confirm", "fail_preview"}

\* button_callback without its guard.
no_current_pack_unchecked(session) == FALSE

\* "if not session.current_pack"
no_current_pack(session) == session.current_pack = NoPack

\* finder.save_posted_pack(pack.get_id()) on the two halves of the store.
Mark(pack) ==
    LET store == save_posted_pack(
            [file |-> posted_packs_file, posted_packs |-> posted_packs],
            get_id(pack))
    IN  /\ posted_packs_file' = store.file
        /\ posted_packs' = store.posted_packs

\* What a handler that raised leaves in the session, and tells the operator.
Advance(u, session, outcome) ==
    /\ user_sessions' =
           IF outcome = "fail_confirm" THEN user_sessions
           ELSE [user_sessions EXCEPT ![u] = advance(session)]
    /\ reply' = [user |-> u,
                 kind |-> IF outcome = "ok" THEN after_advance(advance(session))
                          ELSE "none"]

\* /search
Search(u, available) ==
    LET session == user_sessions[u]
        new_packs == search_new_modpacks(posted_packs, available)
    IN  /\ IF new_packs = <<>>
           THEN /\ reply' = [user |-> u, kind |-> "info"]
                /\ UNCHANGED user_sessions
           ELSE /\ user_sessions' =
                       [user_sessions EXCEPT ![u] = set_results(session, new_packs)]
                /\ reply' = [user |-> u, kind |-> "shown"]
        /\ UNCHANGED <<probes, now, posted_packs, posted_packs_file, queue_file,
                       conv_state, editing_pack, due_posts, hist>>

\* button_callback with no current pack: "Сессия истекла".
Stale(u) ==
    /\ reply' = [user |-> u, kind |-> "stale"]
    /\ UNCHANGED <<probes, now, posted_packs, posted_packs_file, queue_file,
                   user_sessions, conv_state, editing_pack, due_posts, hist>>

\* The part of "publish" and of edit_text_received that builds and appends
\* the post: the slot is computed, then the image is fetched (delay hours
\* pass), then the post is appended and the pack marked.
Enqueue(pack, text, delay) ==
    LET post == QueuedPost(text, get_next_schedule_time(now), pack)
    IN  /\ Len(enqueued) < MaxEnqueue
        /\ Len(posted_packs_file) < MaxMarks
        /\ now + delay <= MaxClock
        /\ now' = now + delay
        /\ queue_file' = add_post(queue_file, post)
        /\ enqueued' = Append(enqueued, post)
        /\ Mark(pack)

\* button_callback, action == "publish"
Queue(u, delay, outcome) ==
    LET session == user_sessions[u]
        pack == session.current_pack
    IN  IF no_current_pack(session) THEN Stale(u)
        ELSE /\ Enqueue(pack, "generated", delay)
             /\ Advance(u, session, outcome)
             /\ UNCHANGED <<probes, conv_state, editing_pack, due_posts,
                            drained, attempts, channel>>

PublishNowOutcomes == Outcomes \cup {"fetch_raises", "deliver_fails"}

\* "publish_now" with save_posted_pack moved in front of the send.
PublishNow_marks_first(u, outcome) ==
    LET session == user_sessions[u]
        pack == session.current_pack
    IN  IF no_current_pack(session) THEN Stale(u)
        ELSE /\ Len(posted_packs_file) < MaxMarks
             /\ Mark(pack)
             /\ IF outcome \in {"fetch_raises", "deliver_fails"}
                THEN /\ reply' = [user |-> u, kind |-> "error"]
                     /\ UNCHANGED <<user_sessions, channel>>
                ELSE /\ BagCardinality(channel) < MaxPublishNow
                     /\ channel' = channel (+) SetToBag({get_id(pack)})
                     /\ user_sessions' =
                            IF outcome = "fail_confirm" THEN user_sessions
                            ELSE [user_sessions EXCEPT ![u] = advance(session)]
                     /\ reply' = [user |-> u,
                                  kind |-> IF outcome = "ok"
                                           THEN after_advance(advance(session))
                                           ELSE "error"]
             /\ UNCHANGED <<probes, now, queue_file, conv_state, editing_pack,
                            due_posts, enqueued, drained, attempts>>

\* button_callback, action == "publish_now"
PublishNow(u, outcome) ==
    LET session == user_sessions[u]
        pack == session.current_pack
    IN  IF no_current_pack(session) THEN Stale(u)
        ELSE IF outcome \in {"fetch_raises", "deliver_fails"}
        THEN /\ reply' = [user |-> u, kind |-> "error"]
             /\ UNCHANGED <<probes, now, posted_packs, posted_packs_file, queue_file,
                            user_sessions, conv_state, editing_pack, due_posts,
                            hist>>
        ELSE /\ BagCardinality(channel) < MaxPublishNow
             /\ Len(posted_packs_file) < MaxMarks
             /\ channel' = channel (+) SetToBag({get_id(pack)})
             /\ Mark(pack)
             /\ user_sessions' =
                    IF outcome = "fail_confirm" THEN user_sessions
                    ELSE [user_sessions EXCEPT ![u] = advance(session)]
             /\ reply' = [user |-> u,
                          kind |-> IF outcome = "ok"
                                   THEN after_advance(advance(session))
                                   ELSE "error"]
             /\ UNCHANGED <<probes, now, queue_file, conv_state, editing_pack,
                            due_posts, enqueued, drained, attempts>>

\* button_callback, action == "reject"
Reject(u, outcome) ==
    LET session == user_sessions[u]
        pack == session.current_pack
    IN  IF no_current_pack(session) THEN Stale(u)
        ELSE /\ Len(posted_packs_file) < MaxMarks
             /\ Mark(pack)
             /\ Advance(u, session, outcome)
             /\ UNCHANGED <<probes, now, queue_file, conv_state, editing_pack,
                            due_posts, hist>>

\* "regenerate" that moves to the next pack as "reject" does.
Regenerate_moves_on(u, outcome) ==
    LET session == user_sessions[u]
    IN  IF no_current_pack(session) THEN Stale(u)
        ELSE /\ Advance(u, session, outcome)
             /\ UNCHANGED <<probes, now, posted_packs, posted_packs_file, queue_file,
                            conv_state, editing_pack, due_posts, hist>>

\* button_callback, action == "regenerate"
Regenerate(u, outcome) ==
    LET session == user_sessions[u]
    IN  IF no_current_pack(session) THEN Stale(u)
        ELSE /\ reply' = [user |-> u,
                          kind |-> IF outcome = "ok" THEN "shown" ELSE "none"]
             /\ UNCHANGED <<probes, now, posted_packs, posted_packs_file, queue_file,
                            user_sessions, conv_state, editing_pack, due_posts,
                            hist>>

\* button_callback, action == "edit".  As the conversation's entry point, or
\* through the catch-all CallbackQueryHandler when the conversation is
\* already in EDITING_TEXT, where the returned state is ignored.
EditRequest(u, outcome) ==
    LET session == user_sessions[u]
        pack == session.current_pack
    IN  IF no_current_pack(session) THEN Stale(u)
        ELSE IF outcome # "ok"
        THEN /\ reply' = [user |-> u, kind |-> "none"]
             /\ UNCHANGED <<probes, now, posted_packs, posted_packs_file, queue_file,
                            user_sessions, conv_state, editing_pack, due_posts,
                            hist>>
        ELSE /\ editing_pack' = [editing_pack EXCEPT ![u] = pack]
             /\ conv_state' = [conv_state EXCEPT ![u] = "editing"]
             /\ reply' = [user |-> u, kind |-> "info"]
             /\ UNCHANGED <<probes, now, posted_packs, posted_packs_file, queue_file,
                            user_sessions, due_posts, hist>>

\* edit_text_received: a text message while the conversation is in
\* EDITING_TEXT.  A handler that raises leaves the conversation where it was.
EditSubmit(u, delay, outcome) ==
    LET pack == editing_pack[u]
        session == user_sessions[u]
    IN  /\ conv_state[u] = "editing"
        /\ IF pack = NoPack
           THEN /\ reply' = [user |-> u, kind |-> "error"]
                /\ conv_state' = [conv_state EXCEPT ![u] = "idle"]
                /\ UNCHANGED <<probes, now, posted_packs, posted_packs_file, queue_file,
                               user_sessions, editing_pack, due_posts, hist>>
           ELSE /\ Enqueue(pack, "user", delay)
                /\ Advance(u, session, outcome)
                /\ conv_state' =
                       IF outcome = "ok"
                       THEN [conv_state EXCEPT ![u] = "idle"]
                       ELSE conv_state
                /\ UNCHANGED <<probes, editing_pack, due_posts, drained, attempts,
                               channel>>

\* cancel_edit: /cancel while the conversation is in EDITING_TEXT.
CancelEdit(u) ==
    /\ conv_state[u] = "editing"
    /\ conv_state' = [conv_state EXCEPT ![u] = "idle"]
    /\ reply' = [user |-> u,
                 kind |-> IF no_current_pack(user_sessions[u])
                          THEN "info" ELSE "shown"]
    /\ UNCHANGED <<probes, now, posted_packs, posted_packs_file, queue_file,
                   user_sessions, editing_pack, due_posts, hist>>

----------------------------------------------------------------------------
(* check_queue_callback, the job run_repeating starts every 60 seconds; the *)
(* scheduler starts no second run of a job while one is running.            *)

PollerTick ==
    LET r == get_due_posts(queue_file, now)
    IN  /\ due_posts = <<>>
        /\ queue_file' = r.file
        /\ due_posts' = r.due
        /\ drained' = drained \o r.due
        /\ UNCHANGED <<probes, now, posted_packs, posted_packs_file, user_sessions,
                       conv_state, editing_pack, reply, enqueued, attempts,
                       channel>>

\* The delivery loop taking the due posts from the end of the list.
PollerDeliver_from_end(delivered) ==
    /\ due_posts # <<>>
    /\ LET post == due_posts[Len(due_posts)]
       IN  /\ attempts' = Append(attempts, [post |-> post, ok |-> delivered])
           /\ channel' = IF delivered
                         THEN channel (+) SetToBag({post.pack_id})
                         ELSE channel
    /\ due_posts' = SubSeq(due_posts, 1, Len(due_posts) - 1)
    /\ UNCHANGED <<probes, now, posted_packs, posted_packs_file, queue_file,
                   user_sessions, conv_state, editing_pack, reply, enqueued,
                   drained>>

\* The delivery loop with the try around the loop: a send that raises ends it.
PollerDeliver_stops_on_failure(delivered) ==
    /\ due_posts # <<>>
    /\ LET post == Head(due_posts)
       IN  /\ attempts' = Append(attempts, [post |-> post, ok |-> delivered])
           /\ channel' = IF delivered
                         THEN channel (+) SetToBag({post.pack_id})
                         ELSE channel
    /\ due_posts' = IF delivered THEN Tail(due_posts) ELSE <<>>
    /\ UNCHANGED <<probes, now, posted_packs, posted_packs_file, queue_file,
                   user_sessions, conv_state, editing_pack, reply, enqueued,
                   drained>>

\* The delivery loop putting a post back when its send raises.
PollerDeliver_requeue(delivered) ==
    /\ due_posts # <<>>
    /\ LET post == Head(due_posts)
       IN  /\ attempts' = Append(attempts, [post |-> post, ok |-> delivered])
           /\ channel' = IF delivered
                         THEN channel (+) SetToBag({post.pack_id})
                         ELSE channel
           /\ queue_file' = IF delivered THEN queue_file
                            ELSE add_post(queue_file, post)
    /\ due_posts' = Tail(due_posts)
    /\ UNCHANGED <<probes, now, posted_packs, posted_packs_file,
                   user_sessions, conv_state, editing_pack, reply, enqueued,
                   drained>>

\* One iteration of "for post in due_posts": the post is sent, or the send
\* raises, is logged, and the loop goes on.
PollerDeliver(delivered) ==
    /\ due_posts # <<>>
    /\ LET post == Head(due_posts)
       IN  /\ attempts' = Append(attempts, [post |-> post, ok |-> delivered])
           /\ channel' = IF delivered
                         THEN channel (+) SetToBag({post.pack_id})
                         ELSE channel
    /\ due_posts' = Tail(due_posts)
    /\ UNCHANGED <<probes, now, posted_packs, posted_packs_file, queue_file,
                   user_sessions, conv_state, editing_pack, reply, enqueued,
                   drained>>

\* An hour passes.
ClockTick ==
    /\ now < MaxClock
    /\ now' = now + 1
    /\ UNCHANGED <<probes, posted_packs, posted_packs_file, queue_file, user_sessions,
                   conv_state, editing_pack, due_posts, reply, hist>>

Delays == 0..MaxFetchDelay

\* The steps of the program, the transport's outcomes drawn from `outcomes`
\* and the image fetch's duration from `delays`.
Step(outcomes, delays) ==
    \/ \E u \in Users, available \in SUBSET Slugs : Search(u, available)
    \/ \E u \in Users, delay \in delays, o \in Outcomes \cap outcomes :
           Queue(u, delay, o)
    \/ \E u \in Users, o \in PublishNowOutcomes \cap outcomes : PublishNow(u, o)
    \/ \E u \in Users, o \in Outcomes \cap outcomes : Reject(u, o)
    \/ \E u \in Users, o \in Outcomes \cap outcomes : Regenerate(u, o)
    \/ \E u \in Users, o \in Outcomes \cap outcomes : EditRequest(u, o)
    \/ \E u \in Users, delay \in delays, o \in Outcomes \cap outcomes :
           EditSubmit(u, delay, o)
    \/ \E u \in Users : CancelEdit(u)
    \/ PollerTick
    \/ \E delivered \in BOOLEAN : PollerDeliver(delivered)
    \/ ClockTick

Next == Step(PublishNowOutcomes, Delays)

Spec == Init /\ [][Next]_vars

\* Two operators who search, queue and edit while the job runs; every
\* project of the catalogue answers, every call to the operator's chat
\* succeeds and the image fetch takes no time.
NextTeam ==
    \/ \E u \in Users : Search(u, Slugs)
    \/ \E u \in Users : Queue(u, 0, "ok")
    \/ \E u \in Users : EditRequest(u, "ok")
    \/ \E u \in Users : EditSubmit(u, 0, "ok")
    \/ PollerTick
    \/ \E delivered \in BOOLEAN : PollerDeliver(delivered)
    \/ ClockTick

SpecTeam == InitTeam /\ [][NextTeam]_vars

\* Two operators at their review: they search and decide, every call
\* succeeding and the image fetch taking no time; the job does not run.
NextDesk ==
    \/ \E u \in Users, available \in SUBSET Slugs : Search(u, available)
    \/ \E u \in Users : Queue(u, 0, "ok")
    \/ \E u \in Users : PublishNow(u, "ok")
    \/ \E u \in Users : Reject(u, "ok")
    \/ \E u \in Users : EditRequest(u, "ok")
    \/ \E u \in Users : EditSubmit(u, 0, "ok")

SpecDesk == InitTeam /\ [][NextDesk]_vars

----------------------------------------------------------------------------
(* The job under its scheduling.  run_repeating(interval=60) keeps starting *)
(* check_queue_callback, a started run goes through its loop, and the clock *)
(* goes on, here to the day's second slot, by when every post that the      *)
(* operator could queue inside the clock window is due.  The operator       *)
(* searches and queues as they like, under no fairness.                     *)

LiveMaxClock == Slot18

LiveClockTick ==
    /\ now < LiveMaxClock
    /\ now' = now + 1
    /\ UNCHANGED <<probes, posted_packs, posted_packs_file, queue_file, user_sessions,
                   conv_state, editing_pack, due_posts, reply, hist>>

NextLive ==
    \/ \E u \in Users : Search(u, Slugs)
    \/ \E u \in Users : Queue(u, 0, "ok")
    \/ PollerTick
    \/ \E delivered \in BOOLEAN : PollerDeliver(delivered)
    \/ LiveClockTick

SpecLive ==
    /\ Init
    /\ [][NextLive]_vars
    /\ WF_vars(PollerTick)
    /\ WF_vars(\E delivered \in BOOLEAN : PollerDeliver(delivered))
    /\ WF_vars(LiveClockTick)

----------------------------------------------------------------------------
(* get_next_schedule_time on its own: the clock starts anywhere in          *)
(* ProbeDays days and the function is called on it.                         *)

ProbeClocks == 0..(ProbeDays * HoursPerDay - 1)

InitSlot == \E clock \in ProbeClocks : Start({1}, clock, EmptyQueueFile)

ProbeSlot ==
    /\ slot_probe' = [at |-> now, slot |-> get_next_schedule_time(now)]
    /\ UNCHANGED <<core, hist, crash_note>>

NextSlot == ProbeSlot

SpecSlot == InitSlot /\ [][NextSlot]_vars

----------------------------------------------------------------------------
(* get_due_posts on its own: the job starts on any queue.json of at most    *)
(* MaxDrainLen posts, complete or not, at any hour of the clock.            *)

DrainPosts ==
    {[text |-> "generated", scheduled_time |-> t, pack_id |-> get_id(Modpack(slug))] :
        t \in {Slot18 - HoursPerDay, Slot12, Slot18}, slug \in Slugs}

DrainQueues ==
    UNION {[1..n -> DrainPosts] : n \in 0..MaxDrainLen}

DrainFiles ==
    {[text |-> x, records |-> q] : x \in {"complete", "partial"}, q \in DrainQueues}
        \cup {[text |-> "empty", records |-> <<>>]}

InitDrain ==
    \E clock \in StartClock..MaxClock, file \in DrainFiles :
        Start({1}, clock, file)

NextDrain ==
    \/ PollerTick
    \/ \E delivered \in BOOLEAN : PollerDeliver(delivered)
    \/ ClockTick

SpecDrain == InitDrain /\ [][NextDrain]_vars

----------------------------------------------------------------------------
(* The review scenario: one operator, one search on a fresh store, then one *)
(* terminal action on each candidate in turn, every call succeeding; the    *)
(* job does not run.                                                        *)

Candidates == user_sessions[1].modpacks

ScenarioSearch ==
    /\ Candidates = <<>>
    /\ \E available \in SUBSET Slugs : Search(1, available)

CandidateLeft == Len(posted_packs_file) < Len(Candidates)

ScenarioQueue == CandidateLeft /\ \E delay \in Delays : Queue(1, delay, "ok")

ScenarioPublishNow == CandidateLeft /\ PublishNow(1, "ok")

ScenarioReject == CandidateLeft /\ Reject(1, "ok")

NextScenario ==
    \/ ScenarioSearch
    \/ ScenarioQueue
    \/ ScenarioPublishNow
    \/ ScenarioReject
    \/ ClockTick

SpecScenario == Init /\ [][NextScenario]_vars

----------------------------------------------------------------------------
(* Crashes.  The process dies inside PostQueue.save, called from add_post   *)
(* or from get_due_posts, and is started again: open(QUEUE_FILE, 'w') has   *)
(* truncated the file and json.dump writes the text piece by piece, so the  *)
(* file holds the old text (not opened yet), nothing, a part of the new     *)
(* text, or all of it.  The restart runs the module's top-level code, which *)
(* writes "[]" over a file of size 0, and ModpackFinder(), which reads the  *)
(* log; sessions, conversations and the job's due posts are gone.           *)

SavePoints == {"before_open", "opened", "writing", "written"}

\* queue.json when the process dies at `point` of save(queue).
interrupted_save(old, queue, point) ==
    IF point = "before_open" THEN old
    ELSE IF point = "opened" THEN [text |-> "empty", records |-> <<>>]
    ELSE IF point = "writing" THEN [text |-> "partial", records |-> queue]
    ELSE save(queue)

\* Lines 51-53: a missing or empty queue.json is written as "[]".
startup_queue_file(file) ==
    IF file.text = "empty" THEN EmptyQueueFile ELSE file

Restart(file) ==
    /\ queue_file' = startup_queue_file(file)
    /\ posted_packs' = load_posted_packs(posted_packs_file)
    /\ user_sessions' = [u \in Users |-> NewSession]
    /\ conv_state' = [u \in Users |-> "idle"]
    /\ editing_pack' = [u \in Users |-> NoPack]
    /\ due_posts' = <<>>
    /\ reply' = NoReply

\* The process dies in the save of "publish"'s add_post.
CrashInEnqueue(u, point) ==
    LET session == user_sessions[u]
        post == QueuedPost("generated", get_next_schedule_time(now),
                           session.current_pack)
        before == load(queue_file)
        saving == Append(before, post)
        file == interrupted_save(queue_file, saving, point)
    IN  /\ ~no_current_pack(session)
        /\ Len(enqueued) < MaxEnqueue
        /\ Restart(file)
        /\ enqueued' = IF point = "written" THEN Append(enqueued, post)
                       ELSE enqueued
        /\ crash_note' = [before |-> before, saving |-> saving,
                          read |-> load(startup_queue_file(file)),
                          crashed |-> TRUE]
        /\ UNCHANGED <<now, posted_packs_file, drained, attempts, channel,
                       slot_probe>>

\* The process dies in the save of the job's get_due_posts.
CrashInDrain(point) ==
    LET before == load(queue_file)
        r == due_loop(before, now, <<>>, <<>>)
        file == interrupted_save(queue_file, r.remaining, point)
    IN  /\ due_posts = <<>>
        /\ r.due # <<>>
        /\ Restart(file)
        /\ crash_note' = [before |-> before, saving |-> r.remaining,
                          read |-> load(startup_queue_file(file)),
                          crashed |-> TRUE]
        /\ UNCHANGED <<now, posted_packs_file, hist, slot_probe>>

\* One operator who searches and queues while the job runs, and the crashes.
NextCrash ==
    \/ \E u \in Users, available \in SUBSET Slugs : Search(u, available)
    \/ \E u \in Users, delay \in Delays : Queue(u, delay, "ok")
    \/ PollerTick
    \/ \E delivered \in BOOLEAN : PollerDeliver(delivered)
    \/ ClockTick
    \/ \E u \in Users, point \in SavePoints : CrashInEnqueue(u, point)
    \/ \E point \in SavePoints : CrashInDrain(point)

SpecCrash == Init /\ [][NextCrash]_vars

----------------------------------------------------------------------------
(* save_posted_pack on its own: the process starts on any posted_packs.txt  *)
(* of at most MaxLogLen lines and identifiers are marked, in any order and  *)
(* any number of times.                                                     *)

MarkLogs ==
    UNION {[1..n -> {get_id(Modpack(slug)) : slug \in Slugs}] : n \in 0..MaxLogLen}

InitMark == \E log \in MarkLogs : StartOn({1}, StartClock, EmptyQueueFile, log)

MarkPack(slug) ==
    /\ Len(posted_packs_file) < MaxLogLen + 2
    /\ Mark(Modpack(slug))
    /\ UNCHANGED <<probes, now, queue_file, user_sessions, conv_state,
                   editing_pack, due_posts, reply, hist>>

NextMark == \E slug \in Slugs : MarkPack(slug)

SpecMark == InitMark /\ [][NextMark]_vars

----------------------------------------------------------------------------
(* UserSession on its own: set_results with any list of at most MaxItems    *)
(* packs, the empty one too, and next(), in any order.  reply.kind records  *)
(* what next() returned: "none" for None, "shown" for a pack.               *)

ItemLists ==
    UNION {[1..n -> {Modpack(slug) : slug \in Slugs}] : n \in 0..MaxItems}

SetResults(packs) ==
    /\ user_sessions' = [user_sessions EXCEPT ![1] = set_results(@, packs)]
    /\ reply' = [user |-> 1, kind |-> "info"]
    /\ UNCHANGED <<probes, now, posted_packs, posted_packs_file, queue_file,
                   conv_state, editing_pack, due_posts, hist>>

SessionNext ==
    /\ user_sessions' = [user_sessions EXCEPT ![1] = session_next(@)]
    /\ reply' = [user |-> 1,
                 kind |-> IF next_returns(user_sessions[1]) = NoPack
                          THEN "none" ELSE "shown"]
    /\ UNCHANGED <<probes, now, posted_packs, posted_packs_file, queue_file,
                   conv_state, editing_pack, due_posts, hist>>

NextSession ==
    \/ \E packs \in ItemLists : SetResults(packs)
    \/ SessionNext

SpecSession == Init /\ [][NextSession]_vars

----------------------------------------------------------------------------
(* Restarts.  The process is stopped between two updates and started again: *)
(* the files stay, ModpackFinder() reads the log, and everything in memory  *)
(* is as new.                                                               *)

RestartProcess ==
    /\ Restart(queue_file)
    /\ UNCHANGED <<now, posted_packs_file, hist, probes>>

\* One operator who searches and decides, every call succeeding, and the
\* restarts.
NextRestart ==
    \/ \E u \in Users, available \in SUBSET Slugs : Search(u, available)
    \/ \E u \in Users : Queue(u, 0, "ok")
    \/ \E u \in Users : PublishNow(u, "ok")
    \/ \E u \in Users : Reject(u, "ok")
    \/ RestartProcess
    \/ ClockTick

SpecRestart == Init /\ [][NextRestart]_vars

----------------------------------------------------------------------------
(* Vocabulary of the properties. *)

Range(seq) == {seq[i] : i \in 1..Len(seq)}

BagOfSeq(seq) ==
    [x \in Range(seq) |-> Cardinality({i \in 1..Len(seq) : seq[i] = x})]

RECURSIVE IsSubSeq(_, _)
IsSubSeq(sub, seq) ==
    IF sub = <<>> THEN TRUE
    ELSE IF seq = <<>> THEN FALSE
    ELSE IF Head(sub) = Head(seq) THEN IsSubSeq(Tail(sub), Tail(seq))
    ELSE IsSubSeq(sub, Tail(seq))

PackIds(posts) == [i \in 1..Len(posts) |-> posts[i].pack_id]

AttemptedPosts == [i \in 1..Len(attempts) |-> attempts[i].post]

\* Everything a handler or the job can change, but the clock and the reply.
Effects ==
    <<posted_packs, posted_packs_file, queue_file, user_sessions, conv_state,
      editing_pack, due_posts, enqueued, drained, attempts, channel>>

----------------------------------------------------------------------------
(* C1.  No double-posting: no item identifier is delivered to the channel   *)
(* more than once, PublishNow's deliveries and the job's counted together.  *)
C1_NoDoublePosting ==
    \A id \in BagToSet(channel) : CopiesIn(id, channel) <= 1

(* C2.  Each item identifier is marked exactly once: posted_packs.txt never *)
(* holds an identifier on two lines.                                        *)
C2_MarkedExactlyOnce ==
    \A i, j \in 1..Len(posted_packs_file) :
        posted_packs_file[i] = posted_packs_file[j] => i = j

(* C3.  Once a terminal action has completed on the last item of the        *)
(* operator's session (the operator was told that the items are finished),  *)
(* the session has no current item.                                         *)
C3_IdleAfterLastItem ==
    reply.kind = "finished" => user_sessions[reply.user].current_pack = NoPack


\* Any of the five buttons, pressed by operator u.
ButtonPress(u) ==
    \/ \E delay \in Delays, o \in Outcomes : Queue(u, delay, o)
    \/ \E o \in PublishNowOutcomes : PublishNow(u, o)
    \/ \E o \in Outcomes : Reject(u, o)
    \/ \E o \in Outcomes : Regenerate(u, o)
    \/ \E o \in Outcomes : EditRequest(u, o)

(* C4.  A button pressed by an operator whose session has no current item   *)
(* is answered with the stale-session message and changes nothing: not the  *)
(* dedup store, the queue, the session, the channel, nor anything else.     *)
C4_StaleActionMutatesNothing ==
    [][\A u \in Users :
          (user_sessions[u].current_pack = NoPack /\ ButtonPress(u))
              => /\ reply' = [user |-> u, kind |-> "stale"]
                 /\ UNCHANGED <<Effects, now>>]_vars

C4_Witness ==
    /\ reply.kind = "stale"
    /\ user_sessions[reply.user].current_pack = NoPack

\* The first of the two daily slots that is strictly later than hour t.
EarliestSlotAfter(t) ==
    CHOOSE x \in (t + 1)..(t + HoursPerDay) :
        /\ x % HoursPerDay \in {Slot12, Slot18}
        /\ \A y \in (t + 1)..(x - 1) : y % HoursPerDay \notin {Slot12, Slot18}

C5_State ==
    LET s == user_sessions[1]
        k == Len(posted_packs_file)
        n == Len(s.modpacks)
    IN  /\ k <= n
        /\ LET done == [i \in 1..k |-> get_id(s.modpacks[i])]
           IN  /\ posted_packs_file = done
               /\ posted_packs = Range(done)
               /\ IsSubSeq(PackIds(load(queue_file)), done)
               /\ \A id \in BagToSet(channel) :
                      /\ CopiesIn(id, channel) = 1
                      /\ id \in Range(done)
                      /\ id \notin Range(PackIds(load(queue_file)))
        /\ (n > 0 /\ k < n) => s.current_pack = s.modpacks[k + 1]
        /\ (n > 0 /\ k = n) => ~has_next(s)

C5_Step ==
    LET pack == user_sessions[1].current_pack
    IN  /\ ScenarioQueue =>
               /\ load(queue_file') =
                      Append(load(queue_file),
                             [text |-> "generated",
                              scheduled_time |-> EarliestSlotAfter(now),
                              pack_id |-> get_id(pack)])
               /\ channel' = channel
        /\ ScenarioReject => (queue_file' = queue_file /\ channel' = channel)
        /\ ScenarioPublishNow =>
               /\ queue_file' = queue_file
               /\ channel' = channel (+) SetToBag({get_id(pack)})

(* C5.  In the review scenario, after the k-th action the dedup store holds *)
(* exactly the identifiers of the first k candidates; Queue appends one     *)
(* post for its candidate, scheduled at the first slot after the hour the   *)
(* handler read, and Reject and PublishNow leave the queue as it is;        *)
(* PublishNow delivers its candidate once to the channel; after the n-th    *)
(* action has_next() is false.                                              *)
C5_ReviewScenario == []C5_State /\ [][C5_Step]_vars

C5_Witness ==
    /\ Len(Candidates) = 2
    /\ Len(posted_packs_file) = 2
    /\ Len(load(queue_file)) = 1
    /\ BagCardinality(channel) = 1
    /\ ~has_next(user_sessions[1])

(* C6.  get_due_posts(now) returns exactly the posts with scheduled_time    *)
(* <= now, in their order, and leaves in queue.json exactly the posts with  *)
(* scheduled_time > now, in their order; none is duplicated or lost.        *)
C6_DrainPartition ==
    [][PollerTick =>
          LET queue == load(queue_file)
              IsDue(post) == post.scheduled_time <= now
              NotDue(post) == post.scheduled_time > now
          IN  /\ due_posts' = SelectSeq(queue, IsDue)
              /\ load(queue_file') = SelectSeq(queue, NotDue)
              /\ BagOfSeq(queue) =
                     BagOfSeq(due_posts') (+) BagOfSeq(load(queue_file'))]_vars

C6_Witness ==
    /\ Len(due_posts) = 2
    /\ drained = due_posts
    /\ Len(load(queue_file)) = 1

C7_State ==
    BagOfSeq(AttemptedPosts) (+) BagOfSeq(due_posts) = BagOfSeq(drained)

C7_Step ==
    /\ PollerTick =>
           BagOfSeq(load(queue_file')) (+) BagOfSeq(due_posts') =
               BagOfSeq(load(queue_file))
    /\ (\E delivered \in BOOLEAN : PollerDeliver(delivered)) =>
           queue_file' = queue_file
    /\ enqueued' = enqueued =>
           BagOfSeq(load(queue_file')) \sqsubseteq BagOfSeq(load(queue_file))

(* C7.  A post get_due_posts returned is out of queue.json from that tick   *)
(* on, whether its delivery succeeds or fails: the tick removes it, no      *)
(* delivery puts a post back, nothing but an operator's enqueue adds a post *)
(* to the queue, and each returned post is attempted at most once.          *)
C7_DestructiveRead == []C7_State /\ [][C7_Step]_vars

C7_Witness ==
    /\ due_posts = <<>>
    /\ \E i \in 1..Len(attempts) :
           /\ ~attempts[i].ok
           /\ attempts[i].post \notin Range(load(queue_file))

(* C8.  get_next_schedule_time(now) is strictly later than now, is at 12:00 *)
(* or 18:00, and is the earliest such hour after now: 12:00 today before    *)
(* 12:00, 18:00 today before 18:00, 12:00 of the following day otherwise.   *)
C8_NextSlot ==
    slot_probe # NoProbe =>
        LET t == slot_probe.at
            slot == slot_probe.slot
            day == t \div HoursPerDay
            hour == t % HoursPerDay
        IN  /\ slot > t
            /\ slot % HoursPerDay \in {Slot12, Slot18}
            /\ \A x \in (t + 1)..(slot - 1) :
                   x % HoursPerDay \notin {Slot12, Slot18}
            /\ slot = IF hour < Slot12 THEN day * HoursPerDay + Slot12
                      ELSE IF hour < Slot18 THEN day * HoursPerDay + Slot18
                      ELSE (day + 1) * HoursPerDay + Slot12

C8_Witness ==
    /\ slot_probe # NoProbe
    /\ slot_probe.at % HoursPerDay = Slot18
    /\ slot_probe.slot = slot_probe.at + Slot18

(* C9.  After a crash inside the save of add_post or of get_due_posts, the  *)
(* queue read at the restart is the whole sequence from before the save or  *)
(* the whole sequence that was being saved.                                 *)
C9_CrashSafeSave ==
    crash_note.crashed => crash_note.read \in {crash_note.before, crash_note.saving}

(* C10.  No enqueued post is lost, whatever the interleaving of the         *)
(* operators' Queue and EditSubmit with the job: every post ever appended   *)
(* is in queue.json, in the order of the appends, or was returned by        *)
(* get_due_posts, once.                                                     *)
C10_NoLostQueueEntries ==
    /\ BagOfSeq(enqueued) = BagOfSeq(load(queue_file)) (+) BagOfSeq(drained)
    /\ IsSubSeq(load(queue_file), enqueued)

C10_Witness ==
    /\ Len(enqueued) = 2
    /\ due_posts # <<>>
    /\ load(queue_file) # <<>>
    /\ \A u \in Users : posted_packs # {} /\ user_sessions[u].modpacks # <<>>

\* seq is the beginning of longer.
IsPrefix(seq, longer) ==
    /\ Len(seq) <= Len(longer)
    /\ \A i \in 1..Len(seq) : longer[i] = seq[i]

C11_State ==
    \A id \in Range(posted_packs_file) : is_pack_posted(posted_packs, id)

C11_Step ==
    /\ \A id \in posted_packs : is_pack_posted(posted_packs', id)
    /\ IsPrefix(posted_packs_file, posted_packs_file')
    /\ RestartProcess => posted_packs' = Range(posted_packs_file)

(* C11.  Dedup membership only grows and survives a restart: an identifier  *)
(* that is posted stays posted over every step, a restart included, where   *)
(* the set becomes exactly the identifiers on the lines of the log (none    *)
(* for a log that does not exist); the log is only ever appended to.        *)
C11_DedupMonotoneDurable == []C11_State /\ [][C11_Step]_vars

C11_Witness ==
    /\ reply = NoReply
    /\ Cardinality(posted_packs) = 2
    /\ user_sessions[1] = NewSession

\* seq with only the first of the equal elements kept.
RECURSIVE WithoutRepeats(_)
WithoutRepeats(seq) ==
    IF seq = <<>> THEN <<>>
    ELSE LET rest == WithoutRepeats(SubSeq(seq, 1, Len(seq) - 1))
             last == seq[Len(seq)]
         IN  IF last \in Range(rest) THEN rest ELSE Append(rest, last)

C12_State ==
    load_posted_packs(posted_packs_file) =
        load_posted_packs(WithoutRepeats(posted_packs_file))

C12_Step ==
    \A slug \in Slugs :
        MarkPack(slug) =>
            LET x == get_id(Modpack(slug))
            IN  /\ is_pack_posted(posted_packs', x)
                /\ posted_packs' = posted_packs \cup {x}
                /\ is_pack_posted(posted_packs, x) => posted_packs' = posted_packs

(* C12.  Marking is idempotent on membership: marking an identifier that is *)
(* posted already leaves the set as it is, with the identifier in it, and   *)
(* marking one that is not adds just that one, so two marks give the set of *)
(* one; a log that holds an identifier on several lines is read as the same *)
(* set as the log with one line for each identifier.                        *)
C12_MarkIdempotent == []C12_State /\ [][C12_Step]_vars

C12_Witness ==
    /\ Len(posted_packs_file) > MaxLogLen
    /\ \E i, j \in 1..Len(posted_packs_file) :
           i < j /\ j > MaxLogLen /\ posted_packs_file[i] = posted_packs_file[j]
    /\ posted_packs = Range(WithoutRepeats(posted_packs_file))

\* The cursor bounds and the current item of operator 1's session.
C13_Cursor ==
    LET s == user_sessions[1]
        cursor == s.current_index
        n == Len(s.modpacks)
    IN  /\ 0 <= cursor /\ cursor <= n
        /\ (s.current_pack # NoPack) <=> (cursor < n)
        /\ cursor < n => s.current_pack = s.modpacks[cursor + 1]

\* The cursor is at the last valid index.
AtLastIndex(s) == s.current_index = Len(s.modpacks) - 1

\* There is no item, or the cursor is at the last valid index.
NoFurtherItem(s) == s.modpacks = <<>> \/ AtLastIndex(s)

\* What a call of next() does, `stays` telling the sessions it leaves alone.
C13_Advance(stays(_)) ==
    SessionNext =>
        LET s == user_sessions[1]
        IN  IF stays(s)
            THEN /\ user_sessions'[1] = s
                 /\ reply'.kind = "none"
            ELSE /\ user_sessions'[1].current_index = s.current_index + 1
                 /\ user_sessions'[1].modpacks = s.modpacks
                 /\ reply'.kind = "shown"

(* C13 as stated.  After any sequence of set_results and next: the cursor   *)
(* is between 0 and the number of items, the current item is defined iff    *)
(* the cursor is below that number and is then the item at the cursor,      *)
(* next() moves the cursor by one unless it is at the last item, where it   *)
(* changes nothing and returns None, and has_next() is false iff the cursor *)
(* is at the last valid index.                                              *)
C13_SessionCursor_Original ==
    /\ [](C13_Cursor /\ (~has_next(user_sessions[1]) <=> AtLastIndex(user_sessions[1])))
    /\ [][C13_Advance(AtLastIndex)]_vars

(* C13 as amended: the same, a session without items counting as one whose  *)
(* cursor is at the last item: next() changes nothing and returns None, and *)
(* has_next() is false, iff the session has no items or the cursor is at    *)
(* the last valid index.                                                    *)
C13_SessionCursor ==
    /\ [](C13_Cursor /\ (~has_next(user_sessions[1]) <=> NoFurtherItem(user_sessions[1])))
    /\ [][C13_Advance(NoFurtherItem)]_vars

C13_Witness ==
    /\ Len(user_sessions[1].modpacks) >= 2
    /\ user_sessions[1].current_index = Len(user_sessions[1].modpacks) - 1
    /\ reply.kind = "none"

(* C14.  When PublishNow's send to the channel raises, the operator is told *)
(* of the error by the same handler, and the handler marks nothing, leaves  *)
(* queue.json as it is and leaves the session on the same item, so that the *)
(* button can be pressed again.                                             *)
C14_PublishNowDeliveryFailure ==
    [][\A u \in Users :
          (user_sessions[u].current_pack # NoPack /\ PublishNow(u, "deliver_fails"))
              => /\ reply' = [user |-> u, kind |-> "error"]
                 /\ posted_packs' = posted_packs
                 /\ posted_packs_file' = posted_packs_file
                 /\ queue_file' = queue_file
                 /\ user_sessions'[u] = user_sessions[u]
                 /\ channel' = channel]_vars

C14_Witness ==
    /\ reply.kind = "error"
    /\ LET pack == user_sessions[reply.user].current_pack
       IN  /\ pack # NoPack
           /\ ~is_pack_posted(posted_packs, get_id(pack))
           /\ CopiesIn(get_id(pack), channel) = 0

(* C15.  A search that fills an operator's session puts no posted pack into *)
(* it: every pack of the new session is one whose identifier is not in the  *)
(* dedup store when the search runs, whoever marked it and by which action. *)
C15_SearchExcludesMarked ==
    [][\A u \in Users :
          ((\E available \in SUBSET Slugs : Search(u, available))
               /\ reply'.kind = "shown")
              => /\ user_sessions'[u].modpacks # <<>>
                 /\ \A i \in 1..Len(user_sessions'[u].modpacks) :
                        get_id(user_sessions'[u].modpacks[i]) \notin posted_packs]_vars

C15_Witness ==
    /\ reply = [user |-> 2, kind |-> "shown"]
    /\ posted_packs = {get_id(Modpack("alpha"))}
    /\ user_sessions[2] = set_results(NewSession, <<Modpack("beta")>>)
    /\ user_sessions[1].current_pack = Modpack("beta")

\* How many times x stands in seq.
Count(x, seq) == Cardinality({i \in 1..Len(seq) : seq[i] = x})

\* The posts an operator's Queue can build inside the clock window.
QueueablePosts ==
    {QueuedPost("generated", t, Modpack(slug)) : t \in {Slot12, Slot18}, slug \in Slugs}

\* A tick hands over every post of queue.json that is due, and no other.
C16_FirstTick ==
    PollerTick =>
        \A post \in Range(load(queue_file)) :
            post.scheduled_time <= now <=> post \in Range(due_posts')

\* The k-th copy of a post that was appended is in time attempted.
C16_Eventually ==
    \A post \in QueueablePosts, k \in 1..MaxEnqueue :
        (Count(post, enqueued) >= k) ~> (Count(post, AttemptedPosts) >= k)

(* C16.  With the job started at every interval, its loop going on and the  *)
(* clock advancing, every post appended to queue.json is in time handed to  *)
(* the send, whatever the operator does meanwhile: a tick returns exactly   *)
(* the posts whose scheduled_time is <= its clock, so a post goes out with  *)
(* the first tick at or after its time, and every returned post is tried.   *)
C16_EventualDelivery == [][C16_FirstTick]_vars /\ C16_Eventually

C16_Witness ==
    /\ Len(enqueued) = 2
    /\ enqueued[1].scheduled_time = Slot12
    /\ enqueued[2].scheduled_time = Slot18
    /\ AttemptedPosts = enqueued
    /\ now = Slot18

\* Operator u's handler ran on `pack` and ended in one of the two whole
\* outcomes: nothing was done, or the pack is posted and the session has
\* moved on when there is a next pack; and an error is told only when
\* nothing went to the channel.
C17_Whole(u, pack) ==
    LET s == user_sessions[u]
    IN  /\ \/ /\ posted_packs' = posted_packs
               /\ posted_packs_file' = posted_packs_file
               /\ queue_file' = queue_file
               /\ channel' = channel
               /\ user_sessions'[u] = s
           \/ /\ get_id(pack) \in posted_packs'
               /\ has_next(s) => user_sessions'[u] = session_next(s)
        /\ reply'.kind = "error" => channel' = channel

(* C17.  Whatever call to the styler, the image host, the channel or the    *)
(* operator's chat fails inside Queue, PublishNow, Reject or EditSubmit,    *)
(* the handler ends with the pack untouched (not queued, not delivered, not *)
(* posted, still current) or wholly processed (posted, the session on the   *)
(* next pack when there is one), and tells of an error only when nothing    *)
(* was delivered.                                                           *)
C17_NoPartialOutcome ==
    [][\A u \in Users :
          /\ (user_sessions[u].current_pack # NoPack
                 /\ \/ \E delay \in Delays, o \in Outcomes : Queue(u, delay, o)
                    \/ \E o \in PublishNowOutcomes : PublishNow(u, o)
                    \/ \E o \in Outcomes : Reject(u, o))
                => C17_Whole(u, user_sessions[u].current_pack)
          /\ (editing_pack[u] # NoPack
                 /\ \E delay \in Delays, o \in Outcomes : EditSubmit(u, delay, o))
                => C17_Whole(u, editing_pack[u])]_vars

(* C18.  When Queue or EditSubmit appends a post to queue.json, the post's  *)
(* scheduled_time is strictly later than the clock at the append, whatever  *)
(* time the image fetch took since the slot was computed, and is at 12:00   *)
(* or 18:00; it is the slot of the window the handler started in, so posts  *)
(* queued in one window get one scheduled_time.                             *)
C18_ScheduledAfterAppend ==
    [][enqueued' # enqueued =>
          LET post == enqueued'[Len(enqueued')]
          IN  /\ post.scheduled_time > now'
              /\ post.scheduled_time % HoursPerDay \in {Slot12, Slot18}
              /\ post.scheduled_time = EarliestSlotAfter(now)]_vars

\* The candidates of a search: the hits, in their order, that answer and
\* are not posted, up to MAX_SEARCH_RESULTS of them.
CandidatesOf(available) ==
    LET Fresh(slug) == slug \in available /\ <<"modrinth", slug>> \notin posted_packs
        fresh == SelectSeq(Catalog, Fresh)
        n == IF Len(fresh) < MAX_SEARCH_RESULTS THEN Len(fresh) ELSE MAX_SEARCH_RESULTS
    IN  [i \in 1..n |-> Modpack(fresh[i])]

\* The session set_results leaves for a list of candidates.
SessionOn(candidates) ==
    [modpacks |-> candidates, current_index |-> 0,
     current_pack |-> IF candidates = <<>> THEN NoPack ELSE candidates[1]]

(* C19 as stated.  When a search ends, the operator's session is exactly    *)
(* the list of candidates it returned, with the cursor at 0: never the      *)
(* earlier list, nor a mixture of the two.                                  *)
C19_SearchReplacesSession_Original ==
    [][\A u \in Users, available \in SUBSET Slugs :
          Search(u, available) =>
              user_sessions'[u] = SessionOn(CandidatesOf(available))]_vars

(* C19 as amended.  A search that returns at least one candidate leaves the *)
(* operator's session as exactly that list with the cursor at 0, never a    *)
(* mixture with the earlier list; a search that returns none leaves the     *)
(* session as it was.                                                       *)
C19_SearchReplacesSession ==
    [][\A u \in Users, available \in SUBSET Slugs :
          Search(u, available) =>
              user_sessions'[u] =
                  IF CandidatesOf(available) # <<>>
                  THEN SessionOn(CandidatesOf(available))
                  ELSE user_sessions[u]]_vars

C19_Witness ==
    /\ reply = [user |-> 1, kind |-> "shown"]
    /\ user_sessions[1] = SessionOn(<<Modpack("beta")>>)
    /\ posted_packs = {get_id(Modpack("alpha"))}
    /\ user_sessions[2] = NewSession

\* The posts handed to the send so far, then those the running tick still
\* holds, are the posts the ticks returned, in their order.
C20_InOrderOnce == AttemptedPosts \o due_posts = drained

C20_Step ==
    /\ PollerTick =>
           /\ IsSubSeq(due_posts', load(queue_file))
           /\ attempts' = attempts
           /\ (\A post \in Range(load(queue_file)) : post.scheduled_time > now)
                  => (due_posts' = <<>> /\ queue_file' = queue_file)
    /\ \A delivered \in BOOLEAN :
           PollerDeliver(delivered) =>
               /\ Len(attempts') = Len(attempts) + 1
               /\ attempts'[Len(attempts')] =
                      [post |-> Head(due_posts), ok |-> delivered]
               /\ due_posts' = Tail(due_posts)

(* C20.  The posts a tick returns are handed to the send in the order of    *)
(* queue.json, posts of equal scheduled_time included, each once; a send    *)
(* that raises leaves the posts after it to be tried; a tick that finds     *)
(* nothing due sends nothing and does not write queue.json.                 *)
C20_TickOrder == []C20_InOrderOnce /\ [][C20_Step]_vars

C20_Witness ==
    /\ due_posts = <<>>
    /\ Len(attempts) = 3
    /\ ~attempts[1].ok
    /\ attempts[2].ok
    /\ attempts[1].post.scheduled_time = attempts[2].post.scheduled_time
    /\ attempts[1].post # attempts[2].post
    /\ AttemptedPosts = drained

(* C21.  Regenerate on a session with a current pack leaves the dedup       *)
(* store, queue.json, the session's list and cursor as they are and sends   *)
(* nothing to the channel; the current pack afterwards is the same pack.    *)
C21_RegenerateFrame ==
    [][\A u \in Users :
          (user_sessions[u].current_pack # NoPack
               /\ \E o \in Outcomes : Regenerate(u, o))
              => /\ posted_packs' = posted_packs
                 /\ posted_packs_file' = posted_packs_file
                 /\ queue_file' = queue_file
                 /\ user_sessions'[u].modpacks = user_sessions[u].modpacks
                 /\ user_sessions'[u].current_index = user_sessions[u].current_index
                 /\ user_sessions'[u].current_pack = user_sessions[u].current_pack
                 /\ channel' = channel
                 /\ attempts' = attempts]_vars

C21_Witness ==
    /\ reply = [user |-> 1, kind |-> "none"]
    /\ has_next(user_sessions[1])
    /\ user_sessions[1].current_pack = Modpack("alpha")
    /\ conv_state[1] = "idle"
    /\ posted_packs = {}
    /\ channel = EmptyBag

(* C22.  In PublishNow a fetch of the image that fails, by its status or by *)
(* raising, counts as no image: the post still goes to the channel, the     *)
(* pack is posted and the session moves on; the operator is told of no      *)
(* error.                                                                   *)
C22_PublishNowImageFailure ==
    [][\A u \in Users :
          (user_sessions[u].current_pack # NoPack /\ PublishNow(u, "fetch_raises"))
              => LET s == user_sessions[u]
                     id == get_id(s.current_pack)
                 IN  /\ channel' = channel (+) SetToBag({id})
                     /\ id \in posted_packs'
                     /\ user_sessions'[u] = advance(s)
                     /\ reply'.kind # "error"]_vars

(* C23.  In every operator's session every pack below the cursor is posted: *)
(* the cursor has moved past a pack only by a terminal action on that pack. *)
C23_BelowCursorMarked ==
    \A u \in Users :
        \A i \in 1..user_sessions[u].current_index :
            is_pack_posted(posted_packs, get_id(user_sessions[u].modpacks[i]))

(* C24.  Whatever the operator did since they pressed Edit, the text they   *)
(* send is queued for the session's current pack of that moment, a pack     *)
(* that is neither posted nor in queue.json yet; that pack is then posted,  *)
(* and the session moves on from it.                                        *)
C24_EditSubmitCurrentItem ==
    [][\A u \in Users :
          (editing_pack[u] # NoPack
               /\ \E delay \in Delays, o \in Outcomes : EditSubmit(u, delay, o))
              => LET s == user_sessions[u]
                     id == get_id(s.current_pack)
                 IN  /\ s.current_pack # NoPack
                     /\ id \notin posted_packs
                     /\ id \notin Range(PackIds(load(queue_file)))
                     /\ Len(enqueued') = Len(enqueued) + 1
                     /\ enqueued'[Len(enqueued')].pack_id = id
                     /\ posted_packs' = posted_packs \cup {id}
                     /\ user_sessions'[u] \in {s, advance(s)}]_vars

(* C25.  Also after a crash inside a handler and the restart, every post in *)
(* queue.json is for a pack whose identifier is on a line of                *)
(* posted_packs.txt: no pack is queued on disk without being posted on      *)
(* disk.                                                                    *)
C25_QueuedImpliesLogged ==
    \A post \in Range(load(queue_file)) :
        post.pack_id \in Range(posted_packs_file)

====
